---- MODULE Spec2Model ----
(***************************************************************************)
(* BeePi recording controller: record.py, record_picam.py, record_live.py  *)
(* and utils.py.  The controller records N_SEGMENTS segments per           *)
(* iteration, converts them with an external filter (ffmpeg), checks the   *)
(* local disk and moves converted files to a USB stick.                    *)
(*                                                                         *)
(* Disk sizes are carried in MiB: shutil.disk_usage reports bytes and the  *)
(* code divides them by BYTES_PER_GB = 1024^3 before comparing with the    *)
(* thresholds; for whole-MiB byte counts float(bytes) / BYTES_PER_GB > t   *)
(* holds exactly when MiB > t * 1024, and byte counts of a 20 GB disk do   *)
(* not fit the 32-bit integers of the model checker.                       *)
(***************************************************************************)
EXTENDS Naturals, Integers, Sequences, FiniteSets, TLC

\* ------------------------------------------------------------ constants
N_SEGMENTS == 5
MIB_PER_GB == 1024
\* WRITE_TO_USB_AFTER = 8.0 and LEAVE_SPARE_ON_PI = 6.0 (gb), in MiB
WRITE_TO_USB_AFTER == 8 * MIB_PER_GB
LEAVE_SPARE_ON_PI == 6 * MIB_PER_GB

\* ------------------------------------------------------------ bounds
\* largest planned iteration count of a run of the model
MaxIterations == 2
\* how many non-fatal faults (segment file missing after stop, filter exit 0
\* without output) the environment injects in one run
MaxFaults == 1
\* how many files the directory handed to a function under test holds at most
MaxFiles == 2

\* size of one recorded segment and of its stream-copied mp4, in MiB
SegSize == 1 * MIB_PER_GB

Progs == {"record", "record_picam", "record_live"}

\* (segment_length, session_length) pairs given on the command line
SegLens == {3, 120}
SessLens == {7, 100, 120, 400, 700, 1300, 1900}

\* free space of the usb stick at launch (MiB)
UsbFreeAtLaunch == {5 * MIB_PER_GB, 17 * (MIB_PER_GB \div 2), 32 * MIB_PER_GB}

\* a local disk and a stick at launch: <<total, used, free on the stick>>,
\* given in halves of a GB
Disk(t, u, f) ==
    <<t * (MIB_PER_GB \div 2), u * (MIB_PER_GB \div 2), f * (MIB_PER_GB \div 2)>>

\* The disks and sticks a run starts on.  A 12 GB disk with 3 GB used (the
\* first iteration ends exactly at the write threshold and below the spare
\* margin), with 3.5 GB used and a stick that takes no iteration, one
\* iteration, or every iteration, and with 10 GB used (less than the margin
\* free at launch); a 14 GB disk on which the first iteration ends exactly at
\* the margin, with a stick too small for what two iterations leave; a 20 GB
\* disk whose usage stays above the threshold after every offload.  On each
\* of them an offload has the files of one iteration to move: the orders in
\* which a directory of n files can be emptied grow as 2^n.
Disks ==
    {Disk(24, 6, 64), Disk(24, 7, 10), Disk(24, 7, 17), Disk(24, 7, 64),
     Disk(24, 20, 64), Disk(28, 6, 17), Disk(40, 20, 64)}

VARIABLES
    prog,            \* which script runs: record.py, record_picam.py, record_live.py
    args,            \* the parsed argument dict (test_setup rewrites it)
    pc,              \* position of the script / of the function under test
    err,             \* the exception that ended the run, "" if none
    num_iterations,  \* planned iterations
    recording_iter,  \* loop variable of the recording loop
    space_on_usb,    \* the "no more USB space" flag (TRUE: offload possible)
    segment,         \* loop variable of the segment recorder
    total, used,     \* the controller's local snapshots (MiB)
    usb_free,        \* the controller's USB snapshot (MiB)
    fs,              \* files on the local disk (set of paths)
    usb_fs,          \* files on the USB stick (set of paths)
    disk_total, disk_used,   \* the local filesystem as shutil.disk_usage sees it
    usb_disk_free,   \* free space of the stick as shutil.disk_usage sees it
    todo,            \* the files a glob returned which the running loop has not
                     \* visited yet (a set: the loop takes them in the order the file
                     \* system listed them, so any of them can be the next)
    cur,             \* the file of the pass under way: the one write_to_usb has
                     \* copied and not yet unlinked, or the one a pass was on when
                     \* it raised (<<>> if none)
    remove_orig,     \* the remove_orig argument of the converter being run
    led,             \* BrightPi IR leds: "unset", "on", "off"
    ir_cmds,         \* commands sent to the BrightPi so far
    camera_proc,     \* picam process: "none", "running", "terminated"
    cameras,         \* PiCamera handles opened so far (none is ever closed)
    segs_started,    \* capture cycles started so far
    steps,           \* controller steps taken in the current iteration, in order
    usb_snaps,       \* snapshots of the USB stick taken so far
    warnings,        \* logger.warning calls so far
    faults,          \* non-fatal faults injected so far
    conv_calls,      \* the filter runs so far: <<file, outcome, the iteration
                     \* the run was made in>>
    handed,          \* the files a glob of write_to_usb has returned so far
    capture_log,     \* the start and stop requests sent to the capture device, in order
    checks_ok        \* FALSE once a storage check found the local usage above the
                     \* write threshold or the spare space below the margin

vars == <<prog, args, pc, err, num_iterations, recording_iter, space_on_usb,
          segment, total, used, usb_free, fs, usb_fs, disk_total, disk_used,
          usb_disk_free, todo, cur, remove_orig, led, ir_cmds, camera_proc,
          cameras, segs_started, steps, usb_snaps, warnings, faults,
          conv_calls, handed, capture_log, checks_ok>>

\* ------------------------------------------------------------ paths
\* A path is a record [dir, pre, iter, sid, ext, part]: the directory, the
\* stem (a prefix, then the iteration and segment index the recorder's name
\* embeds) and the extension; part is Whole for a complete file and, for a
\* file whose content was cut short, the MiB of it that were written.
Whole == -1

Path(d, i, s, e) ==
    [dir |-> d, pre |-> "", iter |-> i, sid |-> s, ext |-> e, part |-> Whole]

\* video_file.parent / (video_file.stem + ".mp4")
Mp4Path(p) == [p EXCEPT !.ext = "mp4"]

\* file.parent / ("gry-" + file.stem + file.suffix)
GreyPath(p) == [p EXCEPT !.pre = "gry-" \o p.pre]

\* ts_files_save_rec_path / ts_filename.name
RecPath(p) == [p EXCEPT !.dir = "rec"]

\* MiB a file takes on its disk; entries of picam's rec directory are links
\* to the recording kept under archive
Size(p) ==
    IF p.part # Whole THEN p.part
    ELSE IF p.dir = "rec" THEN 0 ELSE SegSize

\* data_path.glob("*"): every file of directory d, whatever its extension
GlobAnyExt(files, d, e) == {p \in files : p.dir = d}

\* data_path.glob("*.ext"): the files of directory d with extension e
Glob(files, d, e) == {p \in files : p.dir = d /\ p.ext = e}

\* data_path.glob("**/*.h264") of record_live.py: every directory below data/
GlobRecursive(files, e) == {p \in files : p.ext = e}

\* total size of a set of files
SizeOf(S) == SegSize * Cardinality({p \in S : Size(p) > 0})

\* ------------------------------------------------------------ arguments
\* test_setup that renames the experiment and leaves the lengths alone
test_setup_name_only(pr, a) == [a EXCEPT !.experiment_name = "test"]

\* test_setup: record.py 138-143, record_picam.py 89-95, record_live.py 93-98
test_setup(pr, a) ==
    IF pr = "record"
    THEN [a EXCEPT !.experiment_name = "test", !.segment_length = 3,
                   !.session_length = 7]
    ELSE IF pr = "record_picam"
    THEN [a EXCEPT !.experiment_name = "test", !.segment_length = 3,
                   !.session_length = 7, !.ir = TRUE]
    ELSE [a EXCEPT !.experiment_name = "test", !.segment_length = 3,
                   !.session_length = 6, !.ir = TRUE]

\* if args["debug"]: test_setup(args)
Effective(pr, a) == IF a.debug THEN test_setup(pr, a) ELSE a

\* assert args["segment_length"] <= args["session_length"]
AcceptedOrEqual(a) == a.segment_length <= a.session_length

\* assert args["segment_length"] < args["session_length"]
Accepted(a) == a.segment_length < a.session_length

\* int(math.floor(a / b)): the quotient rounded down
FloorDiv(a, b) == a \div b

\* int(math.ceil(a / b)) for positive integers
CeilDiv(a, b) == (a + b - 1) \div b

\* int(round(a / b)): Python rounds a half to the even neighbour
RoundDiv(a, b) ==
    LET q == a \div b
        r == a % b
    IN IF 2 * r < b THEN q
       ELSE IF 2 * r > b THEN q + 1
       ELSE IF q % 2 = 0 THEN q ELSE q + 1

Max(a, b) == IF a >= b THEN a ELSE b

\* num_iterations = max(1, int(math.ceil(session / (N_SEGMENTS * segment))));
\* record_live.py rounds instead
NumIterations(pr, a) ==
    IF pr = "record_live"
    THEN Max(1, RoundDiv(a.session_length, N_SEGMENTS * a.segment_length))
    ELSE Max(1, CeilDiv(a.session_length, N_SEGMENTS * a.segment_length))

\* the capture backend of the run: record.py chooses with --use_picamera;
\* record_live.py and the recorder of utils.py drive a PiCamera
UsesPicamera ==
    prog \in {"record_live", "utils"} \/ (prog = "record" /\ args.use_picamera)

\* "data/<experiment>/<iter>" of record_live.py
LiveDir(i) == "data/" \o args.experiment_name \o "/" \o ToString(i)

\* the directory the raw segments of the running iteration are saved in; for
\* utils.py the save_dir argument of the call
SaveDir ==
    IF prog = "record_live" THEN LiveDir(recording_iter)
    ELSE IF prog = "utils" THEN "videos"
    ELSE IF UsesPicamera THEN "picamera_data" ELSE "archive"

\* the num_segs argument of the running recorder: N_SEGMENTS in the calls the
\* scripts make (record.py 261 and 301, record_picam.py 214, record_live.py
\* 194), any count when a recorder is called by itself
NumSegs == IF "num_segs" \in DOMAIN args THEN args.num_segs ELSE N_SEGMENTS

RawExt == IF UsesPicamera THEN "h264" ELSE "ts"

ArgSpace ==
    [experiment_name : {"exp"}, segment_length : SegLens, session_length : SessLens,
     ir : BOOLEAN, debug : BOOLEAN, use_picamera : BOOLEAN]

\* ------------------------------------------------------------ initial state
InitCommon ==
    /\ err = ""
    /\ num_iterations = 0
    /\ recording_iter = -1
    /\ space_on_usb = TRUE
    /\ segment = 0
    /\ total = 0 /\ used = 0 /\ usb_free = 0
    /\ todo = {} /\ cur = <<>>
    /\ led = "unset" /\ ir_cmds = 0
    /\ camera_proc = "none" /\ cameras = 0
    /\ segs_started = 0
    /\ steps = <<>>
    /\ usb_snaps = 0
    /\ warnings = 0
    /\ faults = 0
    /\ conv_calls = {}
    /\ handed = {}
    /\ capture_log = <<>>
    /\ checks_ok = TRUE

Init ==
    /\ prog \in Progs
    /\ args \in ArgSpace
    /\ prog # "record" => args.use_picamera = FALSE
    /\ Accepted(Effective(prog, args))
          => NumIterations(prog, Effective(prog, args)) <= MaxIterations
    /\ pc = "parse"
    /\ fs = {} /\ usb_fs = {}
    /\ \E d \in Disks :
          /\ disk_total = d[1]
          /\ disk_used = d[2]
          /\ usb_disk_free = d[3]
    /\ remove_orig = TRUE
    /\ InitCommon

\* ------------------------------------------------------------ start of a run
\* record.py 211-216, record_picam.py 157-161, record_live.py 142-146
ParseArgs ==
    /\ pc = "parse"
    /\ args' = Effective(prog, args)
    /\ IF Accepted(args')
       THEN pc' = "lighting" /\ err' = err
       ELSE pc' = "rejected" /\ err' = "AssertionError"
    /\ UNCHANGED <<prog, num_iterations, recording_iter, space_on_usb, segment,
                   total, used, usb_free, fs, usb_fs, disk_total, disk_used,
                   usb_disk_free, todo, cur, remove_orig, led, ir_cmds,
                   camera_proc, cameras, segs_started, steps, usb_snaps,
                   warnings, faults, conv_calls, handed,
                   capture_log, checks_ok>>

\* record.py 220-225, record_picam.py 165-170: BrightPi(), reset();
\* record_live.py 150-159 also sends set_led_on_off(LED_IR, OFF)
SetupLighting ==
    /\ pc = "lighting"
    /\ IF args.ir
       THEN /\ led' = "off"
            /\ ir_cmds' = ir_cmds + (IF prog = "record_live" THEN 2 ELSE 1)
       ELSE UNCHANGED <<led, ir_cmds>>
    /\ pc' = IF prog = "record_live" THEN "camera_setup" ELSE "plan"
    /\ UNCHANGED <<prog, args, err, num_iterations, recording_iter, space_on_usb,
                   segment, total, used, usb_free, fs, usb_fs, disk_total,
                   disk_used, usb_disk_free, todo, cur, remove_orig, camera_proc,
                   cameras, segs_started, steps, usb_snaps, warnings, faults,
                   conv_calls, handed,
                   capture_log, checks_ok>>

\* record_live.py 162-175: one PiCameraGs for the whole run
SetupCamera ==
    /\ pc = "camera_setup"
    /\ cameras' = cameras + 1
    /\ pc' = "plan"
    /\ UNCHANGED <<prog, args, err, num_iterations, recording_iter, space_on_usb,
                   segment, total, used, usb_free, fs, usb_fs, disk_total,
                   disk_used, usb_disk_free, todo, cur, remove_orig, led, ir_cmds,
                   camera_proc, segs_started, steps, usb_snaps, warnings, faults,
                   conv_calls, handed,
                   capture_log, checks_ok>>

\* record.py 228-233, record_picam.py 173-178, record_live.py 178-182
PlanIterations ==
    /\ pc = "plan"
    /\ num_iterations' = NumIterations(prog, args)
    /\ space_on_usb' = TRUE
    /\ pc' = "loop"
    /\ UNCHANGED <<prog, args, err, recording_iter, segment, total, used,
                   usb_free, fs, usb_fs, disk_total, disk_used, usb_disk_free,
                   todo, cur, remove_orig, led, ir_cmds, camera_proc, cameras,
                   segs_started, steps, usb_snaps, warnings, faults, conv_calls,
                   handed,
                   capture_log, checks_ok>>

\* LoopHead over range(num_iterations + 1): one value more than planned
LoopHeadOneMore ==
    /\ pc = "loop"
    /\ IF recording_iter + 1 < num_iterations + 1
       THEN /\ recording_iter' = recording_iter + 1
            /\ steps' = <<>>
            /\ segment' = 0
            /\ pc' = IF prog = "record_live" THEN "record" ELSE "ir_on"
       ELSE /\ pc' = "done"
            /\ UNCHANGED <<recording_iter, steps, segment>>
    /\ UNCHANGED <<prog, args, err, num_iterations, space_on_usb, total, used,
                   usb_free, fs, usb_fs, disk_total, disk_used, usb_disk_free,
                   todo, cur, remove_orig, led, ir_cmds, camera_proc, cameras,
                   segs_started, usb_snaps, warnings, faults, conv_calls, handed,
                   capture_log, checks_ok>>

\* for recording_iter in range(num_iterations): the next value, or the end of
\* the loop and of the script
LoopHead ==
    /\ pc = "loop"
    /\ IF recording_iter + 1 < num_iterations
       THEN /\ recording_iter' = recording_iter + 1
            /\ steps' = <<>>
            /\ segment' = 0
            /\ pc' = IF prog = "record_live" THEN "record" ELSE "ir_on"
       ELSE /\ pc' = "done"
            /\ UNCHANGED <<recording_iter, steps, segment>>
    /\ UNCHANGED <<prog, args, err, num_iterations, space_on_usb, total, used,
                   usb_free, fs, usb_fs, disk_total, disk_used, usb_disk_free,
                   todo, cur, remove_orig, led, ir_cmds, camera_proc, cameras,
                   segs_started, usb_snaps, warnings, faults, conv_calls, handed,
                   capture_log, checks_ok>>

\* ------------------------------------------------------------ iteration body
\* record.py 239-242, record_picam.py 184-187: set_led_on_off(LED_IR, ON)
IrOn ==
    /\ pc = "ir_on"
    /\ IF args.ir
       THEN /\ led' = "on"
            /\ ir_cmds' = ir_cmds + 1
            /\ steps' = Append(steps, "ir_on")
       ELSE UNCHANGED <<led, ir_cmds, steps>>
    /\ pc' = "camera"
    /\ UNCHANGED <<prog, args, err, num_iterations, recording_iter, space_on_usb,
                   segment, total, used, usb_free, fs, usb_fs, disk_total,
                   disk_used, usb_disk_free, todo, cur, remove_orig, camera_proc,
                   cameras, segs_started, usb_snaps, warnings, faults, conv_calls,
                   handed,
                   capture_log, checks_ok>>

\* record.py 248-256: PiCameraGs(...); record.py 276-298 and
\* record_picam.py 190-212: subprocess.Popen(["./picam", ...])
StartCamera ==
    /\ pc = "camera"
    /\ IF UsesPicamera
       THEN cameras' = cameras + 1 /\ UNCHANGED camera_proc
       ELSE camera_proc' = "running" /\ UNCHANGED cameras
    /\ steps' = Append(steps, "camera")
    /\ pc' = "record"
    /\ UNCHANGED <<prog, args, err, num_iterations, recording_iter, space_on_usb,
                   segment, total, used, usb_free, fs, usb_fs, disk_total,
                   disk_used, usb_disk_free, todo, cur, remove_orig, led, ir_cmds,
                   segs_started, usb_snaps, warnings, faults, conv_calls, handed,
                   capture_log, checks_ok>>

\* ------------------------------------------------------------ segment recorder
\* datetime.datetime.now().strftime("%y%m%d-%H%M%S") (record.py 50 and 78,
\* record_picam.py 33) and strftime('%d%m%y-%H%M') (record_live.py 57).  Every
\* segment of a run of the model starts within the same second: the case in
\* which the time stamp tells no two names apart.
Timestamp(pr) == IF pr = "record_live" THEN "010170-0000" ELSE "700101-000000"

\* run_details = f"{args['fps']}fps-{args['width']}x{args['height']}" with the
\* default fps, width and height (record.py 258, 300)
RunDetails == "60fps-640x480"

\* the name= argument the controller passes to the recorder: record.py 264 and
\* 304, record_picam.py 217; record_live.py 194-199 passes none; the recorder
\* of utils.py is given a name like the one record.py builds
RunName(pr, a, i) ==
    IF pr \in {"record", "utils"}
    THEN "iter" \o ToString(i) \o "-" \o a.experiment_name \o "-" \o RunDetails
    ELSE IF pr = "record_picam"
    THEN "iter" \o ToString(i) \o "-" \o a.experiment_name
    ELSE ""

\* f"{timestamp}-{name}": the segment index left out of the name
FileNameNoSid(pr, seg, name) ==
    IF pr = "record_live"
    THEN "60fps-" \o Timestamp(pr)
    ELSE Timestamp(pr) \o "-" \o name

\* the stem the recorder gives segment seg: f"{timestamp}-sid{segment}-{name}"
\* (record.py 51 and 78, record_picam.py 33, utils.py 42),
\* str(i) + f"-{camera.framerate}fps-" + timestamp (record_live.py 52-57)
FileName(pr, seg, name) ==
    IF pr = "record_live"
    THEN ToString(seg) \o "-60fps-" \o Timestamp(pr)
    ELSE Timestamp(pr) \o "-sid" \o ToString(seg) \o "-" \o name

\* one request sent to the capture device
CaptureEvent(e) ==
    [ev |-> e,
     file |-> FileName(prog, segment, RunName(prog, args, recording_iter)),
     iter |-> recording_iter,
     segment |-> segment]

\* whether the recorder checks that the segment's file exists after stop:
\* record.py 58-61 and 83-86, record_picam.py 38-41; record_live.py 61-62 and
\* utils.py 46-47 log "Video saved" whatever the device left
RecorderChecksFile == prog \notin {"record_live", "utils"}

\* The first half of one pass of the loop of record_n_segments_picam /
\* record_n_segments_picamera / record_n_segments: name the segment and ask
\* the capture device to start it (the start_record hook, or the next name of
\* camera.record_sequence).
StartSegment ==
    /\ pc = "record"
    /\ segment < NumSegs
    /\ capture_log' = Append(capture_log, CaptureEvent("start"))
    /\ segs_started' = segs_started + 1
    /\ steps' = IF segment = 0 THEN Append(steps, "record") ELSE steps
    /\ pc' = "recording"
    /\ UNCHANGED <<prog, args, err, num_iterations, recording_iter, space_on_usb,
                   segment, total, used, usb_free, fs, usb_fs, disk_total,
                   disk_used, usb_disk_free, todo, cur, remove_orig, led, ir_cmds,
                   camera_proc, cameras, usb_snaps, warnings, faults, conv_calls,
                   handed, checks_ok>>

\* RecordSegment with a break after the warning: a missing file ends the
\* recorder's loop
RecordSegmentStopsAtMissing ==
    /\ pc = "recording"
    /\ LET f == Path(SaveDir, recording_iter, segment, RawExt)
           room == disk_used + SegSize <= disk_total
       IN \E outcome \in {"saved", "missing"} :
            /\ outcome = "saved" => room
            /\ outcome = "missing" => (faults < MaxFaults \/ ~room)
            /\ IF outcome = "saved"
               THEN /\ fs' = fs \cup (IF UsesPicamera THEN {f} ELSE {f, RecPath(f)})
                    /\ disk_used' = disk_used + SegSize
                    /\ segment' = segment + 1
                    /\ UNCHANGED <<warnings, faults>>
               ELSE /\ warnings' = warnings + (IF RecorderChecksFile THEN 1 ELSE 0)
                    /\ faults' = faults + (IF room THEN 1 ELSE 0)
                    /\ segment' = NumSegs
                    /\ UNCHANGED <<fs, disk_used>>
    /\ capture_log' = Append(capture_log, CaptureEvent("stop"))
    /\ pc' = "record"
    /\ UNCHANGED <<prog, args, err, num_iterations, recording_iter, space_on_usb,
                   total, used, usb_free, usb_fs, disk_total, usb_disk_free, todo,
                   cur, remove_orig, led, ir_cmds, camera_proc, cameras,
                   segs_started, steps, usb_snaps, conv_calls, handed, checks_ok>>

\* The second half of the pass: wait, ask the device to stop (the stop_record
\* hook, or the end of camera.wait_recording), look for the file, go on with
\* the next index.  The capture device either saved the segment or left no
\* file.
RecordSegment ==
    /\ pc = "recording"
    /\ LET f == Path(SaveDir, recording_iter, segment, RawExt)
           room == disk_used + SegSize <= disk_total
       IN \E outcome \in {"saved", "missing"} :
            /\ outcome = "saved" => room
            /\ outcome = "missing" => (faults < MaxFaults \/ ~room)
            /\ IF outcome = "saved"
               THEN /\ fs' = fs \cup (IF UsesPicamera THEN {f} ELSE {f, RecPath(f)})
                    /\ disk_used' = disk_used + SegSize
                    /\ UNCHANGED <<warnings, faults>>
               ELSE /\ warnings' = warnings + (IF RecorderChecksFile THEN 1 ELSE 0)
                    /\ faults' = faults + (IF room THEN 1 ELSE 0)
                    /\ UNCHANGED <<fs, disk_used>>
    /\ capture_log' = Append(capture_log, CaptureEvent("stop"))
    /\ segment' = segment + 1
    /\ pc' = "record"
    /\ UNCHANGED <<prog, args, err, num_iterations, recording_iter, space_on_usb,
                   total, used, usb_free, usb_fs, disk_total, usb_disk_free, todo,
                   cur, remove_orig, led, ir_cmds, camera_proc, cameras,
                   segs_started, steps, usb_snaps, conv_calls, handed, checks_ok>>

\* A call the recorder makes on the capture device raises: start_rec.open("w")
\* or stop_rec.touch() (record.py 52-55, record_picam.py 34-37) raise OSError,
\* camera.record_sequence and camera.wait_recording (record.py 74-82,
\* record_live.py 53-61) raise PiCameraError.  Nothing catches it: the script
\* ends there.
RecorderRaises ==
    /\ pc \in {"record", "recording"}
    /\ pc = "record" => segment < NumSegs
    /\ pc' = "crashed"
    /\ err' = IF UsesPicamera THEN "PiCameraError" ELSE "OSError"
    /\ UNCHANGED <<prog, args, num_iterations, recording_iter, space_on_usb,
                   segment, total, used, usb_free, fs, usb_fs, disk_total,
                   disk_used, usb_disk_free, todo, cur, remove_orig, led, ir_cmds,
                   camera_proc, cameras, segs_started, steps, usb_snaps, warnings,
                   faults, conv_calls, handed, capture_log, checks_ok>>

\* the recorder returns: record.py 306-308 / 268, record_picam.py 219-221,
\* record_live.py 200
FinishRecording ==
    /\ pc = "record"
    /\ segment = NumSegs
    /\ pc' = IF prog = "record_live" THEN "ir_off"
             ELSE IF UsesPicamera THEN "convert_glob" ELSE "terminate"
    /\ UNCHANGED <<prog, args, err, num_iterations, recording_iter, space_on_usb,
                   segment, total, used, usb_free, fs, usb_fs, disk_total,
                   disk_used, usb_disk_free, todo, cur, remove_orig, led, ir_cmds,
                   camera_proc, cameras, segs_started, steps, usb_snaps, warnings,
                   faults, conv_calls, handed,
                   capture_log, checks_ok>>

\* TerminateCamera without camera_proc.terminate(): the script goes on to the
\* conversion with picam still running
TerminateCameraSkipped ==
    /\ pc = "terminate"
    /\ steps' = Append(steps, "terminate")
    /\ pc' = "convert_glob"
    /\ UNCHANGED <<prog, args, err, num_iterations, recording_iter, space_on_usb,
                   segment, total, used, usb_free, fs, usb_fs, disk_total,
                   disk_used, usb_disk_free, todo, cur, remove_orig, led, ir_cmds,
                   camera_proc, cameras, segs_started, usb_snaps, warnings, faults,
                   conv_calls, handed, capture_log, checks_ok>>

\* camera_proc.terminate(): record.py 307, record_picam.py 220
TerminateCamera ==
    /\ pc = "terminate"
    /\ camera_proc' = "terminated"
    /\ steps' = Append(steps, "terminate")
    /\ pc' = "convert_glob"
    /\ UNCHANGED <<prog, args, err, num_iterations, recording_iter, space_on_usb,
                   segment, total, used, usb_free, fs, usb_fs, disk_total,
                   disk_used, usb_disk_free, todo, cur, remove_orig, led, ir_cmds,
                   cameras, segs_started, usb_snaps, warnings, faults, conv_calls,
                   handed,
                   capture_log, checks_ok>>

\* ------------------------------------------------------------ converters
\* how a run of the external filter can end: a non-zero exit status, exit 0
\* with the output file written, exit 0 without an output file
FilterOutcomes == {"nonzero", "ok", "no_output"}

\* the filter's effect on the directory
RunFilter(files, new_path, outcome) ==
    IF outcome = "ok" THEN files \cup {new_path} ELSE files

\* convert_to_mp4 with subprocess.run(...) called without check=True: a
\* non-zero exit status is not raised
convert_to_mp4_unchecked(files, video_file, rm, outcome) ==
    LET new_path == Mp4Path(video_file)
        after == RunFilter(files, new_path, outcome)
    IN IF new_path \in after
       THEN [raised |-> FALSE,
             fs |-> IF rm THEN after \ {video_file} ELSE after,
             warned |-> FALSE]
       ELSE [raised |-> FALSE, fs |-> after, warned |-> TRUE]

\* convert_to_mp4: record.py 89-123, record_picam.py 45-74
convert_to_mp4(files, video_file, rm, outcome) ==
    LET new_path == Mp4Path(video_file)
        after == RunFilter(files, new_path, outcome)
    IN IF outcome = "nonzero"
       THEN [raised |-> TRUE, fs |-> after, warned |-> FALSE]
       ELSE IF new_path \in after
       THEN [raised |-> FALSE,
             fs |-> IF rm THEN after \ {video_file} ELSE after,
             warned |-> FALSE]
       ELSE [raised |-> FALSE, fs |-> after, warned |-> TRUE]

\* one pass of the loop of convert_to_greyscale: record_live.py 74-82,
\* utils.py 57-65
convert_to_greyscale(files, file, rm, outcome) ==
    LET new_path == GreyPath(file)
        after == RunFilter(files, new_path, outcome)
    IN IF outcome = "nonzero"
       THEN [raised |-> TRUE, fs |-> after, warned |-> FALSE]
       ELSE [raised |-> FALSE,
             fs |-> IF rm THEN after \ {file} ELSE after,
             warned |-> FALSE]

\* for h264_filename in local_video_files_path.glob("*.h264") (record.py 271),
\* for ts_filename in ts_files_save_archive_path.glob("*.ts") (record.py 313,
\* record_picam.py 226)
ConvertGlob ==
    /\ pc = "convert_glob"
    /\ todo' = Glob(fs, SaveDir, RawExt)
    /\ steps' = Append(steps, "convert")
    /\ pc' = "convert"
    /\ UNCHANGED <<prog, args, err, num_iterations, recording_iter, space_on_usb,
                   segment, total, used, usb_free, fs, usb_fs, disk_total,
                   disk_used, usb_disk_free, cur, remove_orig, led, ir_cmds,
                   camera_proc, cameras, segs_started, usb_snaps, warnings, faults,
                   conv_calls, handed,
                   capture_log, checks_ok>>

\* One pass of the conversion loop, on whichever file the glob yields next:
\* convert_to_mp4(file, remove_orig=True) and, in the picam branch,
\* (ts_files_save_rec_path / ts_filename.name).unlink()
\* (record.py 272, 314-315; record_picam.py 227-228)
ConvertFile ==
    /\ pc = "convert"
    /\ \E f \in todo, outcome \in FilterOutcomes :
            /\ outcome = "no_output" => faults < MaxFaults
            /\ (outcome = "ok" /\ Mp4Path(f) \notin fs)
                  => disk_used + SegSize <= disk_total
            /\ LET r == convert_to_mp4(fs, f, remove_orig, outcome)
               IN /\ IF r.raised
                     THEN /\ pc' = "crashed"
                          /\ err' = "CalledProcessError"
                          /\ fs' = r.fs
                          /\ cur' = <<f>>
                          /\ UNCHANGED todo
                     ELSE IF ~UsesPicamera /\ RecPath(f) \notin r.fs
                     THEN /\ pc' = "crashed"
                          /\ err' = "FileNotFoundError"
                          /\ fs' = r.fs
                          /\ cur' = <<f>>
                          /\ UNCHANGED todo
                     ELSE /\ pc' = "convert"
                          /\ err' = err
                          /\ fs' = IF UsesPicamera THEN r.fs ELSE r.fs \ {RecPath(f)}
                          /\ cur' = cur
                          /\ todo' = todo \ {f}
                  /\ warnings' = warnings + (IF r.warned THEN 1 ELSE 0)
            /\ faults' = faults + (IF outcome = "no_output" THEN 1 ELSE 0)
            /\ conv_calls' = conv_calls \cup {<<f, outcome, recording_iter>>}
            /\ disk_used' = disk_used + SizeOf(fs') - SizeOf(fs)
    /\ UNCHANGED <<prog, args, num_iterations, recording_iter, space_on_usb,
                   segment, total, used, usb_free, usb_fs, disk_total,
                   usb_disk_free, remove_orig, led, ir_cmds, camera_proc,
                   cameras, segs_started, steps, usb_snaps, handed,
                   capture_log, checks_ok>>

\* FinishConvert going straight to the storage check: brightPi.reset() is
\* never sent
FinishConvertSkipsReset ==
    /\ pc = "convert"
    /\ todo = {}
    /\ pc' = "storage"
    /\ UNCHANGED <<prog, args, err, num_iterations, recording_iter, space_on_usb,
                   segment, total, used, usb_free, fs, usb_fs, disk_total,
                   disk_used, usb_disk_free, todo, cur, remove_orig, led, ir_cmds,
                   camera_proc, cameras, segs_started, steps, usb_snaps, warnings,
                   faults, conv_calls, handed, capture_log, checks_ok>>

\* the conversion loop has visited every file of the glob
FinishConvert ==
    /\ pc = "convert"
    /\ todo = {}
    /\ pc' = "ir_off"
    /\ UNCHANGED <<prog, args, err, num_iterations, recording_iter, space_on_usb,
                   segment, total, used, usb_free, fs, usb_fs, disk_total,
                   disk_used, usb_disk_free, todo, cur, remove_orig, led, ir_cmds,
                   camera_proc, cameras, segs_started, steps, usb_snaps, warnings,
                   faults, conv_calls, handed,
                   capture_log, checks_ok>>

\* IrOff without brightPi.reset(): the leds stay as they are
IrOffSkipped ==
    /\ pc = "ir_off"
    /\ steps' = IF args.ir THEN Append(steps, "ir_off") ELSE steps
    /\ pc' = "storage"
    /\ UNCHANGED <<prog, args, err, num_iterations, recording_iter, space_on_usb,
                   segment, total, used, usb_free, fs, usb_fs, disk_total,
                   disk_used, usb_disk_free, todo, cur, remove_orig, led, ir_cmds,
                   camera_proc, cameras, segs_started, usb_snaps, warnings, faults,
                   conv_calls, handed, capture_log, checks_ok>>

\* record.py 319-322, record_picam.py 231-234, record_live.py 203-206:
\* brightPi.reset()
IrOff ==
    /\ pc = "ir_off"
    /\ IF args.ir
       THEN /\ led' = "off"
            /\ ir_cmds' = ir_cmds + 1
            /\ steps' = Append(steps, "ir_off")
       ELSE UNCHANGED <<led, ir_cmds, steps>>
    /\ pc' = "storage"
    /\ UNCHANGED <<prog, args, err, num_iterations, recording_iter, space_on_usb,
                   segment, total, used, usb_free, fs, usb_fs, disk_total,
                   disk_used, usb_disk_free, todo, cur, remove_orig, camera_proc,
                   cameras, segs_started, usb_snaps, warnings, faults, conv_calls,
                   handed,
                   capture_log, checks_ok>>

\* used >= WRITE_TO_USB_AFTER
LocalUsageReaches(u) == u >= WRITE_TO_USB_AFTER

\* ------------------------------------------------------------ storage check
\* used > WRITE_TO_USB_AFTER (record.py 331, record_picam.py 243)
LocalUsageExceeds(u) == u > WRITE_TO_USB_AFTER

\* usb_free > used: the comparison turned round
UsbExceededReversed(u, free) == free > u

\* used > usb_free (record.py 340, record_picam.py 252)
UsbExceeded(u, free) == u > free

\* (total - used) <= LEAVE_SPARE_ON_PI
SpareAtOrBelow(t, u) == (t - u) <= LEAVE_SPARE_ON_PI

\* (total - used) < LEAVE_SPARE_ON_PI (record.py 356, record_picam.py 270)
SpareBelow(t, u) == (t - u) < LEAVE_SPARE_ON_PI

\* record.py 325-331, record_picam.py 237-243: snapshot the local disk and
\* decide whether to look at the stick.  record_live.py 209-213 compares with
\* WRITE_TO_USB_AFTER_GB, a name the script never binds: NameError.
StorageCheck ==
    /\ pc = "storage"
    /\ total' = disk_total
    /\ used' = disk_used
    /\ steps' = Append(steps, "storage")
    /\ checks_ok' = (checks_ok /\ used' <= WRITE_TO_USB_AFTER
                               /\ total' - used' >= LEAVE_SPARE_ON_PI)
    /\ IF prog = "record_live"
       THEN pc' = "crashed" /\ err' = "NameError"
       ELSE /\ err' = err
            /\ pc' = IF LocalUsageExceeds(used') /\ space_on_usb
                     THEN "usb_check" ELSE "spare"
    /\ UNCHANGED <<prog, args, num_iterations, recording_iter, space_on_usb,
                   segment, usb_free, fs, usb_fs, disk_total, disk_used,
                   usb_disk_free, todo, cur, remove_orig, led, ir_cmds,
                   camera_proc, cameras, segs_started, usb_snaps, warnings, faults,
                   conv_calls, handed,
                   capture_log>>

\* CheckUsb with the break of record.py 343 left out: control falls through
\* to write_to_usb
CheckUsbNoBreak ==
    /\ pc = "usb_check"
    /\ usb_free' = usb_disk_free
    /\ usb_snaps' = usb_snaps + 1
    /\ steps' = Append(steps, "usb_check")
    /\ space_on_usb' = IF UsbExceeded(used, usb_free') THEN FALSE ELSE space_on_usb
    /\ pc' = "usb_glob"
    /\ UNCHANGED <<prog, args, err, num_iterations, recording_iter, segment, total,
                   used, fs, usb_fs, disk_total, disk_used, usb_disk_free, todo,
                   cur, remove_orig, led, ir_cmds, camera_proc, cameras,
                   segs_started, warnings, faults, conv_calls, handed,
                   capture_log, checks_ok>>

\* record.py 334-343, record_picam.py 246-255: snapshot the stick; if the
\* local usage does not fit, clear space_on_usb and break
CheckUsb ==
    /\ pc = "usb_check"
    /\ usb_free' = usb_disk_free
    /\ usb_snaps' = usb_snaps + 1
    /\ steps' = Append(steps, "usb_check")
    /\ IF UsbExceeded(used, usb_free')
       THEN space_on_usb' = FALSE /\ pc' = "done"
       ELSE space_on_usb' = space_on_usb /\ pc' = "usb_glob"
    /\ UNCHANGED <<prog, args, err, num_iterations, recording_iter, segment, total,
                   used, fs, usb_fs, disk_total, disk_used, usb_disk_free, todo,
                   cur, remove_orig, led, ir_cmds, camera_proc, cameras,
                   segs_started, warnings, faults, conv_calls, handed,
                   capture_log, checks_ok>>

\* ------------------------------------------------------------ write_to_usb
\* the files write_to_usb visits: data_path.glob("*.mp4") for the calls of
\* record.py 351 and record_picam.py 263, data_path.glob("**/*.h264") in
\* record_live.py 87
UsbSources ==
    IF prog = "record_live" THEN GlobRecursive(fs, "h264")
    ELSE Glob(fs, SaveDir, "mp4")

\* usbstick_path / "data" / video_path.name (record.py 132, record_picam.py 83);
\* usb_path / video_path (record_live.py 88): the path below the stick
TargetPath(p) == IF prog = "record_live" THEN p ELSE [p EXCEPT !.dir = "data"]

\* for video_path in data_path.glob(...)
WriteToUsbGlob ==
    /\ pc = "usb_glob"
    /\ todo' = UsbSources
    /\ handed' = handed \cup UsbSources
    /\ steps' = Append(steps, "write_to_usb")
    /\ pc' = "usb_copy"
    /\ UNCHANGED <<prog, args, err, num_iterations, recording_iter, space_on_usb,
                   segment, total, used, usb_free, fs, usb_fs, disk_total,
                   disk_used, usb_disk_free, cur, remove_orig, led, ir_cmds,
                   camera_proc, cameras, segs_started, usb_snaps, warnings, faults,
                   conv_calls,
                   capture_log, checks_ok>>

\* CopyFile with the failure of shutil.copyfile swallowed: the loop goes on
\* to video_path.unlink()
CopyFileUnchecked ==
    /\ pc = "usb_copy"
    /\ \E f \in todo, ok \in BOOLEAN :
            /\ IF ok
               THEN /\ TargetPath(f) \notin usb_fs => usb_disk_free >= Size(f)
                    /\ usb_fs' = usb_fs \cup {TargetPath(f)}
                    /\ usb_disk_free' = IF TargetPath(f) \in usb_fs THEN usb_disk_free
                                        ELSE usb_disk_free - Size(f)
               ELSE UNCHANGED <<usb_fs, usb_disk_free>>
            /\ cur' = <<f>>
            /\ pc' = "usb_unlink"
    /\ UNCHANGED <<prog, args, err, num_iterations, recording_iter, space_on_usb,
                   segment, total, used, usb_free, fs, disk_total, disk_used, todo,
                   remove_orig, led, ir_cmds, camera_proc, cameras, segs_started,
                   steps, usb_snaps, warnings, faults, conv_calls, handed,
                   capture_log, checks_ok>>

\* the target of a copy that raised after w MiB had been written
Truncated(p, w) == [p EXCEPT !.part = w]

\* what the stick holds under the name of p: nothing, the complete file, or
\* what an interrupted copy left of it
AtPath(files, p) == {q \in files : [q EXCEPT !.part = Whole] = p}

\* MiB held by a set of files of the stick
Held(S) ==
    LET RECURSIVE Sum(_)
        Sum(T) == IF T = {} THEN 0
                  ELSE LET q == CHOOSE x \in T : TRUE
                       IN  Size(q) + Sum(T \ {q})
    IN  Sum(S)

\* shutil.copyfile writes the file piece by piece; the amounts told apart
\* are the CopyChunks-th parts of a file
CopyChunks == 4

\* how much of file f a copy that raises while writing may have put on the
\* stick: any number of pieces short of the whole file that fits in the room
\* there was, or all of that room when the file does not fit
Written(f, room) ==
    {w \in {(k * Size(f)) \div CopyChunks : k \in 0..(CopyChunks - 1)} : w <= room}
        \cup (IF room < Size(f) THEN {room} ELSE {})

\* One pass of the loop of write_to_usb up to the copy, on whichever file the
\* glob yields next: target_path.parent.mkdir(...);
\* shutil.copyfile(video_path, target_path).  The copy returns, or raises
\* OSError and ends the script.  A copy that raises before the target is
\* opened leaves the stick as it was.  Opening the target empties what the
\* stick held under that name; a copy that raises while writing (the stick
\* runs full, the device goes away, a size limit is hit) leaves under that
\* name what had been written by then.
CopyFile ==
    /\ pc = "usb_copy"
    /\ \E f \in todo, outcome \in {"copied", "nothing", "truncated"} :
        LET t == TargetPath(f)
            old == AtPath(usb_fs, t)
            room == usb_disk_free + Held(old)
        IN  IF outcome = "copied"
            THEN /\ room >= Size(f)
                 /\ usb_fs' = (usb_fs \ old) \cup {t}
                 /\ usb_disk_free' = room - Size(f)
                 /\ cur' = <<f>>
                 /\ pc' = "usb_unlink"
                 /\ err' = err
            ELSE /\ pc' = "crashed"
                 /\ err' = "OSError"
                 /\ cur' = <<f>>
                 /\ IF outcome = "truncated"
                    THEN \E w \in Written(f, room) :
                            /\ usb_fs' = (usb_fs \ old) \cup {Truncated(t, w)}
                            /\ usb_disk_free' = room - w
                    ELSE UNCHANGED <<usb_fs, usb_disk_free>>
    /\ UNCHANGED <<prog, args, num_iterations, recording_iter, space_on_usb,
                   segment, total, used, usb_free, fs, disk_total, disk_used, todo,
                   remove_orig, led, ir_cmds, camera_proc, cameras, segs_started,
                   steps, usb_snaps, warnings, faults, conv_calls, handed,
                   capture_log, checks_ok>>

\* video_path.unlink()
UnlinkSource ==
    /\ pc = "usb_unlink"
    /\ fs' = fs \ {cur[1]}
    /\ disk_used' = disk_used + SizeOf(fs') - SizeOf(fs)
    /\ todo' = todo \ {cur[1]}
    /\ cur' = <<>>
    /\ pc' = "usb_copy"
    /\ UNCHANGED <<prog, args, err, num_iterations, recording_iter, space_on_usb,
                   segment, total, used, usb_free, usb_fs, disk_total,
                   usb_disk_free, remove_orig, led, ir_cmds, camera_proc, cameras,
                   segs_started, steps, usb_snaps, warnings, faults, conv_calls,
                   handed,
                   capture_log, checks_ok>>

\* write_to_usb returns to the controller (record.py 351-352)
WriteToUsbReturn ==
    /\ pc = "usb_copy"
    /\ todo = {}
    /\ pc' = "resnapshot"
    /\ UNCHANGED <<prog, args, err, num_iterations, recording_iter, space_on_usb,
                   segment, total, used, usb_free, fs, usb_fs, disk_total,
                   disk_used, usb_disk_free, todo, cur, remove_orig, led, ir_cmds,
                   camera_proc, cameras, segs_started, steps, usb_snaps, warnings,
                   faults, conv_calls, handed,
                   capture_log, checks_ok>>

\* Resnapshot without the second disk_usage call: the value measured before
\* the offload stays in used
ResnapshotKeepsOld ==
    /\ pc = "resnapshot"
    /\ used' = used
    /\ steps' = Append(steps, "resnapshot")
    /\ pc' = "spare"
    /\ UNCHANGED <<prog, args, err, num_iterations, recording_iter, space_on_usb,
                   segment, total, usb_free, fs, usb_fs, disk_total, disk_used,
                   usb_disk_free, todo, cur, remove_orig, led, ir_cmds,
                   camera_proc, cameras, segs_started, usb_snaps, warnings, faults,
                   conv_calls, handed, capture_log, checks_ok>>

\* used = float(shutil.disk_usage(...).used) / BYTES_PER_GB
\* (record.py 352, record_picam.py 264-266)
Resnapshot ==
    /\ pc = "resnapshot"
    /\ used' = disk_used
    /\ steps' = Append(steps, "resnapshot")
    /\ pc' = "spare"
    /\ UNCHANGED <<prog, args, err, num_iterations, recording_iter, space_on_usb,
                   segment, total, usb_free, fs, usb_fs, disk_total, disk_used,
                   usb_disk_free, todo, cur, remove_orig, led, ir_cmds,
                   camera_proc, cameras, segs_started, usb_snaps, warnings, faults,
                   conv_calls, handed,
                   capture_log, checks_ok>>

\* record.py 356-358, record_picam.py 270-272: break when the spare space is
\* below the margin, else go on with the next value of the loop
CheckSpare ==
    /\ pc = "spare"
    /\ steps' = Append(steps, "spare")
    /\ pc' = IF SpareBelow(total, used) THEN "done" ELSE "loop"
    /\ UNCHANGED <<prog, args, err, num_iterations, recording_iter, space_on_usb,
                   segment, total, used, usb_free, fs, usb_fs, disk_total,
                   disk_used, usb_disk_free, todo, cur, remove_orig, led, ir_cmds,
                   camera_proc, cameras, segs_started, usb_snaps, warnings, faults,
                   conv_calls, handed,
                   capture_log, checks_ok>>

\* ------------------------------------------------------------ the controller
Next ==
    \/ ParseArgs
    \/ SetupLighting
    \/ SetupCamera
    \/ PlanIterations
    \/ LoopHead
    \/ IrOn
    \/ StartCamera
    \/ StartSegment
    \/ RecordSegment
    \/ RecorderRaises
    \/ FinishRecording
    \/ TerminateCamera
    \/ ConvertGlob
    \/ ConvertFile
    \/ FinishConvert
    \/ IrOff
    \/ StorageCheck
    \/ CheckUsb
    \/ WriteToUsbGlob
    \/ CopyFile
    \/ UnlinkSource
    \/ WriteToUsbReturn
    \/ Resnapshot
    \/ CheckSpare

Spec == Init /\ [][Next]_vars

\* ------------------------------------------------------------ record.py to its end
\* Runs of record.py with either backend, on every disk and stick of the
\* model, for a rejected configuration and for one and two planned
\* iterations.  Every statement of the script returns (each external call comes
\* back or raises), so a script that can take a step takes one.
InitRecord ==
    /\ Init
    /\ prog = "record"
    /\ args.segment_length = 120
    /\ args.session_length \in {120, 400, 700}
    /\ ~args.debug

\* the steps of record.py: Next without the camera setup of record_live.py
NextRecord ==
    \/ ParseArgs
    \/ SetupLighting
    \/ PlanIterations
    \/ LoopHead
    \/ IrOn
    \/ StartCamera
    \/ StartSegment
    \/ RecordSegment
    \/ RecorderRaises
    \/ FinishRecording
    \/ TerminateCamera
    \/ ConvertGlob
    \/ ConvertFile
    \/ FinishConvert
    \/ IrOff
    \/ StorageCheck
    \/ CheckUsb
    \/ WriteToUsbGlob
    \/ CopyFile
    \/ UnlinkSource
    \/ WriteToUsbReturn
    \/ Resnapshot
    \/ CheckSpare

SpecFair == InitRecord /\ [][NextRecord]_vars /\ WF_vars(NextRecord)

\* ------------------------------------------------------------ planning alone
\* The start of the three scripts up to the planned iteration count, for every
\* pair of positive lengths up to the bounds.
MaxSegmentLength == 6
MaxSessionLength == 64

PlanArgSpace ==
    [experiment_name : {"exp"}, segment_length : 1..MaxSegmentLength,
     session_length : 1..MaxSessionLength, ir : BOOLEAN, debug : BOOLEAN,
     use_picamera : {FALSE}]

InitPlan ==
    /\ prog \in Progs
    /\ args \in PlanArgSpace
    /\ pc = "parse"
    /\ fs = {} /\ usb_fs = {}
    /\ disk_total = 20 * MIB_PER_GB
    /\ disk_used = 3 * MIB_PER_GB
    /\ usb_disk_free = 32 * MIB_PER_GB
    /\ remove_orig = TRUE
    /\ InitCommon

NextPlan ==
    \/ ParseArgs
    \/ SetupLighting
    \/ SetupCamera
    \/ PlanIterations

SpecPlan == InitPlan /\ [][NextPlan]_vars

\* ------------------------------------------------------------ write_to_usb alone
\* The three write_to_usb functions called on a directory that holds any
\* files, with the arguments the scripts pass, the stick empty or holding
\* what an earlier run that stopped in write_to_usb left of one file.
CallArgs ==
    {a \in ArgSpace : a.segment_length = 120 /\ a.session_length = 400
                      /\ ~a.ir /\ ~a.debug}

\* what the data directory may hold when write_to_usb is called: recordings,
\* converted files and, below data/ of record_live.py, greyscale copies
OffloadCandidates ==
    IF prog = "record_live"
    THEN {Path(LiveDir(i), i, 0, e) : i \in 0..1, e \in {"h264", "mp4"}}
            \cup {GreyPath(Path(LiveDir(0), 0, 0, "h264"))}
    ELSE {Path(SaveDir, 0, s, e) : s \in 0..1, e \in {"mp4", RawExt}}

\* what an earlier run that stopped in write_to_usb before the unlink of file
\* f left on the stick: the complete target, or a part of it
Leftovers(f) ==
    {TargetPath(f)} \cup {Truncated(TargetPath(f), w) : w \in Written(f, Size(f))}

InitOffload ==
    /\ prog \in Progs
    /\ args \in CallArgs
    /\ prog # "record" => args.use_picamera = FALSE
    /\ pc = "usb_glob"
    /\ fs \in {S \in SUBSET OffloadCandidates : Cardinality(S) <= MaxFiles}
    /\ usb_fs \in {{}} \cup {{q} : q \in UNION {Leftovers(f) : f \in fs}}
    /\ disk_total = 20 * MIB_PER_GB
    /\ disk_used = 2 * MIB_PER_GB + SizeOf(fs)
    /\ usb_disk_free \in UsbFreeAtLaunch \cup {SegSize \div 4}
    /\ remove_orig = TRUE
    /\ InitCommon

\* write_to_usb returns to its caller
OffloadReturns ==
    /\ pc = "usb_copy"
    /\ todo = {}
    /\ pc' = "returned"
    /\ UNCHANGED <<prog, args, err, num_iterations, recording_iter, space_on_usb,
                   segment, total, used, usb_free, fs, usb_fs, disk_total,
                   disk_used, usb_disk_free, todo, cur, remove_orig, led, ir_cmds,
                   camera_proc, cameras, segs_started, steps, usb_snaps, warnings,
                   faults, conv_calls, handed,
                   capture_log, checks_ok>>

NextOffload ==
    \/ WriteToUsbGlob
    \/ CopyFile
    \/ UnlinkSource
    \/ OffloadReturns

SpecOffload == InitOffload /\ [][NextOffload]_vars

\* ------------------------------------------------------------ converters alone
\* convert_to_mp4 of record.py and record_picam.py and convert_to_greyscale of
\* record_live.py and utils.py, called on a directory that holds any files,
\* with either value of remove_orig.
ConverterOwners == {"record", "record_picam", "record_live", "utils"}

IsGreyscale == prog \in {"record_live", "utils"}

\* what the directory may hold when a converter is called: recordings and
\* the greyscale copy an earlier call made of one
ConvertCandidates ==
    {Path("videos", 0, s, e) : s \in 0..1, e \in {"ts", "h264"}}
        \cup {GreyPath(Path("videos", 0, 0, "h264"))}

\* the file the converter writes for input p
OutputPath(p) == IF IsGreyscale THEN GreyPath(p) ELSE Mp4Path(p)

InitConvert ==
    /\ prog \in ConverterOwners
    /\ args \in CallArgs
    /\ args.use_picamera = FALSE
    /\ pc = "call"
    /\ fs \in {S \in SUBSET ConvertCandidates : Cardinality(S) <= MaxFiles}
    /\ usb_fs = {}
    /\ disk_total = 20 * MIB_PER_GB
    /\ disk_used = 2 * MIB_PER_GB + SizeOf(fs)
    /\ usb_disk_free \in {32 * MIB_PER_GB}
    /\ remove_orig \in BOOLEAN
    /\ InitCommon

\* convert_to_mp4 is called on one file; convert_to_greyscale walks
\* video_dir.glob("*.h264") (utils.py 57) or the generator it is given
\* (record_live.py 74)
CallConverter ==
    /\ pc = "call"
    /\ IF IsGreyscale
       THEN todo' = Glob(fs, "videos", "h264")
       ELSE \E f \in fs : todo' = {f}
    /\ pc' = "converting"
    /\ UNCHANGED <<prog, args, err, num_iterations, recording_iter, space_on_usb,
                   segment, total, used, usb_free, fs, usb_fs, disk_total,
                   disk_used, usb_disk_free, cur, remove_orig, led, ir_cmds,
                   camera_proc, cameras, segs_started, steps, usb_snaps, warnings,
                   faults, conv_calls, handed,
                   capture_log, checks_ok>>

\* the filter runs on the next file and the converter handles its result
ConverterPass ==
    /\ pc = "converting"
    /\ \E f \in todo, outcome \in FilterOutcomes :
            LET r == IF IsGreyscale
                     THEN convert_to_greyscale(fs, f, remove_orig, outcome)
                     ELSE convert_to_mp4(fs, f, remove_orig, outcome)
            IN /\ fs' = r.fs
               /\ warnings' = warnings + (IF r.warned THEN 1 ELSE 0)
               /\ conv_calls' = conv_calls \cup {<<f, outcome, recording_iter>>}
               /\ disk_used' = disk_used + SizeOf(fs') - SizeOf(fs)
               /\ IF r.raised
                  THEN /\ pc' = "raised" /\ err' = "CalledProcessError"
                       /\ cur' = <<f>> /\ UNCHANGED todo
                  ELSE /\ pc' = "converting" /\ err' = err
                       /\ cur' = cur /\ todo' = todo \ {f}
    /\ UNCHANGED <<prog, args, num_iterations, recording_iter, space_on_usb,
                   segment, total, used, usb_free, usb_fs, disk_total,
                   usb_disk_free, remove_orig, led, ir_cmds, camera_proc,
                   cameras, segs_started, steps, usb_snaps, faults, handed,
                   capture_log, checks_ok>>

\* the converter returns to its caller
ConverterReturns ==
    /\ pc = "converting"
    /\ todo = {}
    /\ pc' = "returned"
    /\ UNCHANGED <<prog, args, err, num_iterations, recording_iter, space_on_usb,
                   segment, total, used, usb_free, fs, usb_fs, disk_total,
                   disk_used, usb_disk_free, todo, cur, remove_orig, led, ir_cmds,
                   camera_proc, cameras, segs_started, steps, usb_snaps, warnings,
                   faults, conv_calls, handed,
                   capture_log, checks_ok>>

NextConvert ==
    \/ CallConverter
    \/ ConverterPass
    \/ ConverterReturns

SpecConvert == InitConvert /\ [][NextConvert]_vars

\* ------------------------------------------------------------ recorders alone
\* The segment recorders of record.py (both backends), record_picam.py,
\* record_live.py and utils.py, called by themselves with any segment count
\* up to the bound.
RecorderOwners == {"record", "record_picam", "record_live", "utils"}

MaxSegs == 3

RecorderArgSpace ==
    [experiment_name : {"exp"}, segment_length : {120}, session_length : {400},
     ir : {FALSE}, debug : {FALSE}, use_picamera : BOOLEAN, num_segs : 0..MaxSegs]

InitRecorder ==
    /\ prog \in RecorderOwners
    /\ args \in RecorderArgSpace
    /\ prog # "record" => args.use_picamera = FALSE
    /\ pc = "record"
    /\ err = ""
    /\ num_iterations = 1
    /\ recording_iter = 0
    /\ space_on_usb = TRUE
    /\ segment = 0
    /\ total = 0 /\ used = 0 /\ usb_free = 0
    /\ fs = {} /\ usb_fs = {}
    /\ disk_total = 20 * MIB_PER_GB
    /\ disk_used \in {3 * MIB_PER_GB, 20 * MIB_PER_GB - SegSize}
    /\ usb_disk_free = 32 * MIB_PER_GB
    /\ todo = {} /\ cur = <<>>
    /\ remove_orig = TRUE
    /\ led = "unset" /\ ir_cmds = 0
    /\ camera_proc = "none" /\ cameras = 0
    /\ segs_started = 0
    /\ steps = <<>>
    /\ usb_snaps = 0
    /\ warnings = 0
    /\ faults = 0
    /\ conv_calls = {}
    /\ handed = {}
    /\ capture_log = <<>>
    /\ checks_ok = TRUE

\* the recorder returns to its caller: the generator of names is exhausted
\* (utils.py 38-47), the for loop over range(num_segs) ends
RecorderReturns ==
    /\ pc = "record"
    /\ segment = NumSegs
    /\ pc' = "returned"
    /\ UNCHANGED <<prog, args, err, num_iterations, recording_iter, space_on_usb,
                   segment, total, used, usb_free, fs, usb_fs, disk_total,
                   disk_used, usb_disk_free, todo, cur, remove_orig, led, ir_cmds,
                   camera_proc, cameras, segs_started, steps, usb_snaps, warnings,
                   faults, conv_calls, handed, capture_log, checks_ok>>

NextRecorder ==
    \/ StartSegment
    \/ RecordSegment
    \/ RecorderRaises
    \/ RecorderReturns

SpecRecorder == InitRecorder /\ [][NextRecorder]_vars

\* ------------------------------------------------------------ properties
Range(s) == {s[i] : i \in 1..Len(s)}

\* C1: write_to_usb deletes a local file only after its copy to the stick has
\* returned: every file a glob of write_to_usb has returned is still in the
\* local directory or is on the stick, and when a copy raises, the file being
\* copied is still in the local directory.
CopyThenDelete ==
    /\ \A f \in handed : f \in fs \/ TargetPath(f) \in usb_fs
    /\ err = "OSError" => (cur # <<>> /\ cur[1] \in todo /\ cur[1] \in fs)

\* one file has been moved to the stick and the copy of the next one failed
CopyFailedAfterMove ==
    /\ err = "OSError"
    /\ \E f \in handed : f \notin fs /\ TargetPath(f) \in usb_fs

\* a filter run that exited non-zero is the last one, ended the run with
\* CalledProcessError and left its input file and the rest of the iteration alone
FilterFailureState ==
    \A c \in conv_calls :
        c[2] = "nonzero" =>
            /\ \A d \in conv_calls : d[2] = "nonzero" => d = c
            /\ pc = "crashed" /\ err = "CalledProcessError"
            /\ c[1] \in fs
            /\ cur = <<c[1]>> /\ c[1] \in todo
            /\ c[3] = recording_iter
            /\ Range(steps) \cap {"ir_off", "storage", "usb_check",
                                  "write_to_usb", "resnapshot", "spare"} = {}

\* C2: when the filter exits with a non-zero status the run ends with
\* CalledProcessError: that filter run is the last one (no later segment is
\* converted), its input file is still there, the storage check and the
\* offload of the iteration have not happened, and no step follows.
FilterFailureIsFatal == []FilterFailureState /\ [][pc # "crashed"]_vars

\* the filter failed on the second file of an iteration, after a first file
\* was converted and removed
FilterFailedOnSecondFile ==
    /\ pc = "crashed" /\ err = "CalledProcessError"
    /\ Cardinality(conv_calls) = 2
    /\ \E c \in conv_calls : c[2] = "ok" /\ c[1] \notin fs
    /\ Cardinality(todo) > 1

\* C3: when the filter exits 0 without writing the output, a warning is
\* logged, nothing is raised, and the original recording is kept: the file
\* under archive (or picamera_data) and, in the picam branch, its counterpart
\* under rec.
SoftFailureKeepsOriginal ==
    \A c \in conv_calls :
        (c[2] = "no_output" /\ c[3] = recording_iter) =>
            /\ warnings > 0
            /\ (err \in {"CalledProcessError", "FileNotFoundError"}
                    => cur # <<c[1]>>)
            /\ c[1] \in fs
            /\ c[1].ext = "ts" => RecPath(c[1]) \in fs

\* C4: in every converter a source file that has been deleted was converted
\* with remove_orig set, by a filter run that exited 0, and its output file
\* exists.
DeletedOnlyAfterVerifiedOutput ==
    \A c \in conv_calls :
        c[1] \notin fs =>
            /\ remove_orig
            /\ \E d \in conv_calls : d[1] = c[1] /\ d[2] # "nonzero"
            /\ OutputPath(c[1]) \in fs

\* a step taken with the flag cleared leaves it cleared and offloads nothing
StickyStep ==
    ~space_on_usb =>
        /\ ~space_on_usb'
        /\ usb_fs' = usb_fs
        /\ handed' = handed
        /\ pc' \notin {"usb_glob", "usb_copy", "usb_unlink"}

\* C5: space_on_usb is TRUE when the loop is entered, and once it is FALSE it
\* stays FALSE and nothing is copied to the stick or handed to write_to_usb.
UsbFlagIsSticky ==
    /\ []((pc = "loop" /\ recording_iter = -1) => space_on_usb)
    /\ [][StickyStep]_vars

\* the flag has been cleared in the second iteration, after an offload in the first
FlagClearedAfterOffload ==
    /\ ~space_on_usb
    /\ recording_iter = 1
    /\ usb_fs # {}

\* the two steps of the storage check when the stick is too small
UsbExceededStep ==
    /\ (pc = "storage" /\ prog # "record_live" /\ space_on_usb
        /\ disk_used > WRITE_TO_USB_AFTER /\ disk_used > usb_disk_free)
          => pc' = "usb_check" /\ used' = disk_used
    /\ (pc = "usb_check" /\ used > usb_disk_free)
          => /\ pc' = "done"
             /\ ~space_on_usb'
             /\ fs' = fs /\ usb_fs' = usb_fs /\ handed' = handed

\* C6: when the local usage exceeds the threshold, offload is believed
\* possible and the local usage exceeds the free space of the stick, the
\* storage check goes on to the stick, clears the flag and ends the run at
\* once: no file is copied or deleted and no step follows.
UsbExceededEndsRun ==
    /\ [][UsbExceededStep]_vars
    /\ [][pc # "done"]_vars
    /\ [](~space_on_usb => (pc = "done" /\ "write_to_usb" \notin Range(steps)))

\* the run ended in its first iteration because the stick was too small,
\* with planned iterations left and converted files still on the local disk
EndedByUsbExceeded ==
    /\ pc = "done"
    /\ ~space_on_usb
    /\ recording_iter + 1 < num_iterations
    /\ Glob(fs, SaveDir, "mp4") # {}

\* how the storage check of record.py and record_picam.py decides, step by step
OffloadDecisionStep ==
    /\ (pc = "storage" /\ prog # "record_live")
          => /\ used' = disk_used
             /\ pc' = IF used' > WRITE_TO_USB_AFTER /\ space_on_usb
                      THEN "usb_check" ELSE "spare"
    /\ pc = "usb_check"
          => /\ usb_free' = usb_disk_free
             /\ pc' = IF usb_free' >= used THEN "usb_glob" ELSE "done"
    /\ pc' = "usb_check" => pc = "storage"
    /\ pc' = "usb_glob" => pc = "usb_check"
    /\ (usb_snaps' # usb_snaps \/ usb_free' # usb_free) => pc = "usb_check"
    /\ (handed' # handed \/ usb_fs' # usb_fs) => pc \in {"usb_glob", "usb_copy"}

\* C7: in record.py and record_picam.py write_to_usb is called exactly when,
\* at the storage check, the local usage is strictly above the threshold, the
\* flag is set and the free space of the stick is at least the local usage;
\* the stick is looked at only when the first two hold.
OffloadIffThreeConditions == [][OffloadDecisionStep]_vars

\* a storage check at exactly the threshold went on without looking at the stick
NoOffloadAtThreshold ==
    /\ pc = "spare"
    /\ used = WRITE_TO_USB_AFTER
    /\ space_on_usb
    /\ usb_snaps = 0

\* the spare-space decision and the loop step that follows it
EarlyStopStep ==
    /\ pc = "spare"
          => pc' = IF total - used < LEAVE_SPARE_ON_PI THEN "done" ELSE "loop"
    /\ pc = "loop"
          => IF recording_iter + 1 < num_iterations
             THEN /\ recording_iter' = recording_iter + 1
                  /\ pc' \in {"ir_on", "record"}
             ELSE pc' = "done"

\* C8: when the spare space of the local disk is strictly below the margin
\* at the end of an iteration the run ends there; otherwise the loop goes on,
\* and starts the next iteration when a planned one is left.
EarlyStopOnSpare ==
    /\ [](pc = "spare" => (total = disk_total /\ used = disk_used))
    /\ [][EarlyStopStep]_vars
    /\ [][pc # "done"]_vars

\* the run ended in its first iteration because the spare space was below
\* the margin, with a planned iteration left
EndedBySpare ==
    /\ pc = "done"
    /\ space_on_usb
    /\ total - used < LEAVE_SPARE_ON_PI
    /\ recording_iter + 1 < num_iterations

\* C9: record.py starts no segment recording while the spare space of the
\* local disk is below the margin, the first iteration included.
MarginHeldWhenRecording ==
    (prog = "record" /\ pc = "record" /\ segment < N_SEGMENTS)
        => disk_total - disk_used >= LEAVE_SPARE_ON_PI

\* which runs are rejected, and what a rejected run has done
RejectedState ==
    /\ pc # "parse" => (pc = "rejected" <=> args.segment_length >= args.session_length)
    /\ pc = "rejected"
          => /\ err = "AssertionError"
             /\ ir_cmds = 0 /\ led = "unset"
             /\ camera_proc = "none" /\ cameras = 0
             /\ segs_started = 0
             /\ fs = {}

\* C10: a configuration whose segment length is not below the session length
\* is rejected, and only such a configuration; a rejected run has sent no
\* command to the BrightPi, opened no camera, started no picam process and no
\* capture cycle, and takes no further step.
RejectedBeforeHardware == []RejectedState /\ [][pc # "rejected"]_vars

\* a run asked to film with IR was rejected
RejectedWithIr ==
    /\ pc = "rejected"
    /\ args.ir
    /\ args.segment_length = args.session_length

\* C11: in record.py and record_picam.py the planned iteration count of an
\* accepted configuration with positive lengths is the ceiling of
\* session_length / (N_SEGMENTS * segment_length) and at least 1: it is the
\* least n >= 1 with n * N_SEGMENTS * segment_length >= session_length, and it
\* is exactly 1 when session_length <= N_SEGMENTS * segment_length.
PlannedCountIsCeiling ==
    (pc = "loop" /\ prog \in {"record", "record_picam"}) =>
        LET span == N_SEGMENTS * args.segment_length
            n == num_iterations
        IN /\ n >= 1
           /\ n * span >= args.session_length
           /\ n > 1 => (n - 1) * span < args.session_length
           /\ args.session_length <= span => n = 1

\* record.py has planned three iterations for a session length that is not a
\* multiple of the length of one iteration
PlannedThreeForPartLastIteration ==
    /\ pc = "loop"
    /\ prog = "record"
    /\ num_iterations = 3
    /\ args.session_length % (N_SEGMENTS * args.segment_length) # 0

\* C12: in record.py, record_picam.py and record_live.py the planned
\* iterations cover the session length of every accepted configuration:
\* num_iterations * N_SEGMENTS * segment_length >= session_length.
PlannedIterationsSuffice ==
    pc = "loop" =>
        num_iterations * N_SEGMENTS * args.segment_length >= args.session_length

\* C13: when --ir is given, every script turns the IR leds on before the
\* first segment of an iteration, keeps them on while each segment is
\* recorded, and turns them off once after the recording and before the
\* storage check.
IlluminationWrapsRecording ==
    (args.ir /\ pc # "parse") =>
        /\ (pc = "record" /\ segment < N_SEGMENTS) => led = "on"
        /\ pc = "recording" => led = "on"
        /\ pc = "storage" => led = "off"
        /\ Cardinality({i \in 1..Len(steps) : steps[i] = "ir_off"}) <= 1

\* C14: the picam process started by an iteration is terminated on every way
\* the run can end: when the script has ended (normally, by a break, or by an
\* exception raised anywhere in the loop, the segment recorder included) no
\* picam process is still running.
CaptureProcessStoppedAtEnd ==
    pc \in {"done", "crashed", "rejected"} => camera_proc # "running"

\* the capture log up to now is a run of start/stop cycles in index order:
\* every start is followed by the stop of the same segment before the next
\* start, and the k-th cycle of the run is segment k % N_SEGMENTS of
\* iteration k \div N_SEGMENTS
CyclesInOrder ==
    \A k \in 1..Len(capture_log) :
        LET cycle == (k - 1) \div 2
        IN /\ capture_log[k].ev = (IF k % 2 = 1 THEN "start" ELSE "stop")
           /\ capture_log[k].segment = cycle % N_SEGMENTS
           /\ capture_log[k].iter = cycle \div N_SEGMENTS

\* the positions of the controller after the recorder of the iteration returned
AfterRecorder ==
    {"terminate", "convert_glob", "convert", "ir_off", "storage", "usb_check",
     "usb_glob", "usb_copy", "usb_unlink", "resnapshot", "spare", "done"}

\* a stop that finds no file logs a warning and goes on with the next index
MissingFileStep ==
    (pc = "recording" /\ pc' # "crashed" /\ fs' = fs /\ prog # "record_live") =>
        /\ warnings' = warnings + 1
        /\ segment' = segment + 1
        /\ pc' = "record"
        /\ err' = err

\* C15: the segment recorders of record.py issue exactly N_SEGMENTS start/stop
\* cycles per call, in index order 0..N_SEGMENTS-1, each start followed by its
\* stop before the next start; a segment whose file is missing after the stop
\* is logged as a warning and neither ends the call nor skips or repeats a
\* segment.
RecorderIssuesAllCycles ==
    /\ []CyclesInOrder
    /\ [](pc \in AfterRecorder
            => Len(capture_log) = 2 * N_SEGMENTS * (recording_iter + 1))
    /\ [][MissingFileStep]_vars

\* the picam recorder has returned after segment 1 left no file: one warning,
\* the later segments recorded
RecorderReturnedAfterMissingFile ==
    /\ pc = "terminate"
    /\ warnings = 1
    /\ Path("archive", 0, 1, "ts") \notin fs
    /\ Path("archive", 0, 4, "ts") \in fs
    /\ Len(capture_log) = 2 * N_SEGMENTS

\* the string t occurs in the string s
Contains(s, t) ==
    \E k \in 1..(Len(s) - Len(t) + 1) : SubSeq(s, k, k + Len(t) - 1) = t

\* C16: within one run two segments with different (iteration, segment index)
\* pairs get different file names although every time stamp of the run is the
\* same, and in record.py and record_picam.py each name embeds the iteration
\* index, the segment index and the experiment name.  Stated for the segment
\* being recorded, in every state in which one is.
SegmentNamesDistinct ==
    pc = "recording" =>
        LET n == Len(capture_log)
            e == capture_log[n]
        IN /\ \A k \in 1..(n - 1) :
                  <<capture_log[k].iter, capture_log[k].segment>> # <<e.iter, e.segment>>
                      => capture_log[k].file # e.file
           /\ prog \in {"record", "record_picam"} =>
                  /\ Contains(e.file, "-sid" \o ToString(e.segment) \o "-")
                  /\ Contains(e.file, "-iter" \o ToString(e.iter) \o "-")
                  /\ Contains(e.file, "-" \o args.experiment_name)

\* record.py is recording segment 0 of its second iteration, named within
\* the same second as segment 0 of the first
SameSegmentIndexInSecondIteration ==
    /\ prog = "record"
    /\ pc = "recording"
    /\ recording_iter = 1
    /\ segment = 0
    /\ capture_log[1].segment = 0 /\ capture_log[1].iter = 0

\* C17: in every script, when the configuration is accepted, every filter run
\* succeeds, every storage check finds the local usage at most the write
\* threshold and the spare space at least the margin, and no call on the
\* capture device or the stick raises, the run executes every planned
\* iteration and ends without an error.
NormalCompletion ==
    (/\ pc \in {"done", "crashed"}
     /\ checks_ok
     /\ \A c \in conv_calls : c[2] = "ok"
     /\ err \notin {"OSError", "PiCameraError"})
        => /\ pc = "done"
           /\ err = ""
           /\ recording_iter + 1 = num_iterations

\* C19: in each iteration the converter runs once over each raw segment the
\* iteration produced and over no other file: every filter run is on a file
\* of the iteration it is made in, and no file is given to the filter twice.
ConvertsOnlyOwnSegments ==
    \A c \in conv_calls :
        /\ c[1].iter = c[3]
        /\ \A d \in conv_calls : d[1] = c[1] => d = c

\* the steps from the end of an offload to the early-stop decision
FreshUsageStep ==
    /\ (pc = "usb_copy" /\ todo = {}) => pc' = "resnapshot"
    /\ pc = "resnapshot" => (used' = disk_used /\ pc' = "spare")
    /\ (pc = "spare" /\ "write_to_usb" \in Range(steps))
          => pc' = IF disk_total - disk_used < LEAVE_SPARE_ON_PI
                   THEN "done" ELSE "loop"

\* C20: after an offload the early-stop decision of the iteration compares
\* the local usage measured after the offload's deletes, so an offload that
\* frees enough space lets the run go on.
EarlyStopUsesFreshUsage ==
    /\ []((pc = "spare" /\ "write_to_usb" \in Range(steps)) => used = disk_used)
    /\ [][FreshUsageStep]_vars

\* the run went on after its first iteration because of the offload: with
\* the files moved to the stick still on the disk the spare space would have
\* been below the margin
OffloadLetRunContinue ==
    /\ pc = "loop"
    /\ recording_iter = 0
    /\ "write_to_usb" \in Range(steps)
    /\ total - used >= LEAVE_SPARE_ON_PI
    /\ total - (used + SizeOf(handed \ fs)) < LEAVE_SPARE_ON_PI
    /\ recording_iter + 1 < num_iterations

\* the script has ended: normally or by a break, by an exception, or by the
\* assert on the arguments
Terminated == pc \in {"done", "crashed", "rejected"}

\* one step of the run: the loop variable moves only at the head of the loop
\* and by one, and a script that has ended takes no step
RunStep ==
    /\ ~Terminated
    /\ recording_iter' \in {recording_iter, recording_iter + 1}
    /\ recording_iter' # recording_iter => (pc = "loop" /\ pc' \in {"ir_on", "record"})

\* C18: every run of record.py ends (each external call returning): the
\* iterations are executed one at a time in increasing index order and never
\* more than planned; a run that has ended without an error before the
\* planned count ended because the spare space was below the margin or the
\* stick lacked room; a run that has ended takes no further step.
RunReachesTerminated ==
    /\ <>Terminated
    /\ [][RunStep]_vars
    /\ [](recording_iter < Max(1, num_iterations))
    /\ []((pc = "done" /\ recording_iter + 1 < num_iterations)
            => (~space_on_usb \/ total - used < LEAVE_SPARE_ON_PI))

\* record.py has ended normally after both of its planned iterations
CompletedBothIterations ==
    /\ prog = "record"
    /\ pc = "done"
    /\ err = ""
    /\ num_iterations = 2
    /\ recording_iter = 1
    /\ space_on_usb
    /\ total - used >= LEAVE_SPARE_ON_PI

\* who touches the files in one step of record.py or record_picam.py: the
\* filter runs on a raw file, or a raw file goes away, only after every
\* start/stop cycle of the iteration and with no picam process running; the
\* stick changes, or a converted file goes away, only inside write_to_usb and
\* after the conversion loop of the iteration has ended; the capture device is
\* driven only before the conversion and the offload of the iteration
PipelineStep ==
    prog # "record_live" =>
        /\ (conv_calls' # conv_calls \/ \E f \in fs \ fs' : f.ext = RawExt)
              => /\ pc = "convert"
                 /\ segment = N_SEGMENTS
                 /\ Len(capture_log) = 2 * N_SEGMENTS * (recording_iter + 1)
                 /\ capture_log[Len(capture_log)].ev = "stop"
                 /\ camera_proc # "running"
        /\ (usb_fs' # usb_fs \/ \E f \in fs \ fs' : f.ext = "mp4")
              => /\ pc \in {"usb_copy", "usb_unlink"}
                 /\ "storage" \in Range(steps)
                 /\ \A f \in Glob(fs, SaveDir, RawExt) :
                        \E c \in conv_calls : c[1] = f /\ c[3] = recording_iter
        /\ (capture_log' # capture_log \/ \E f \in fs' \ fs : f.ext = RawExt)
              => /\ pc \in {"record", "recording"}
                 /\ Range(steps) \cap {"convert", "write_to_usb"} = {}

\* C21: within an iteration of record.py no raw segment is read or deleted by
\* the converter before every segment of the iteration has been recorded and
\* the capture stopped, no file is copied or deleted by write_to_usb before
\* the conversion loop of the iteration has ended, and capture, conversion
\* and offload do not overlap.
ProducerBeforeConsumer == [][PipelineStep]_vars

\* write_to_usb is moving the files of the first iteration of the picam
\* backend: five segments recorded, picam terminated, five filter runs
OffloadAfterConversion ==
    /\ prog = "record"
    /\ ~args.use_picamera
    /\ pc = "usb_unlink"
    /\ recording_iter = 0
    /\ camera_proc = "terminated"
    /\ Cardinality(conv_calls) = N_SEGMENTS
    /\ usb_fs # {}

\* the place of a controller step in the body of the recording loop
Rank(s) ==
    CASE s = "ir_on" -> 1
      [] s = "camera" -> 2
      [] s = "record" -> 3
      [] s = "terminate" -> 4
      [] s = "convert" -> 5
      [] s = "ir_off" -> 6
      [] s = "storage" -> 7
      [] s = "usb_check" -> 8
      [] s = "write_to_usb" -> 9
      [] s = "resnapshot" -> 10
      [] s = "spare" -> 11

\* the steps of the running iteration so far are in the order of the loop
\* body, none taken twice; illumination is switched exactly when --ir was
\* given; a step is preceded by the steps the body has before it
StepsInOrder ==
    (prog # "record_live" /\ pc \notin {"parse", "rejected"}) =>
        /\ \A i, j \in 1..Len(steps) : i < j => Rank(steps[i]) < Rank(steps[j])
        /\ ~args.ir => Range(steps) \cap {"ir_on", "ir_off"} = {}
        /\ (args.ir /\ steps # <<>>) => steps[1] = "ir_on"
        /\ "convert" \in Range(steps) => "record" \in Range(steps)
        /\ "storage" \in Range(steps)
              => /\ "convert" \in Range(steps)
                 /\ args.ir => "ir_off" \in Range(steps)
        /\ "write_to_usb" \in Range(steps) => "usb_check" \in Range(steps)
        /\ "usb_check" \in Range(steps) => "storage" \in Range(steps)
        /\ "spare" \in Range(steps)
              => /\ "storage" \in Range(steps)
                 /\ ("write_to_usb" \in Range(steps)
                        <=> "resnapshot" \in Range(steps))

\* the next iteration begins only after the spare-space decision of the
\* running one
NextIterationStep ==
    (recording_iter' # recording_iter /\ recording_iter >= 0)
        => (steps # <<>> /\ steps[Len(steps)] = "spare" /\ steps' = <<>>)

\* C22: in record.py and record_picam.py the steps of an iteration come in
\* one fixed order: IR on (if --ir), record all segments, convert, IR reset
\* (if --ir), local storage snapshot, optional stick snapshot and offload,
\* spare-space decision; no step is taken twice in an iteration and no step
\* of the next iteration comes before the spare-space decision of this one.
IterationStepsInFixedOrder == []StepsInOrder /\ [][NextIterationStep]_vars

\* an iteration of the picam backend with --ir that took every step of the
\* loop body, the offload included
FullIterationWithOffload ==
    /\ pc = "loop"
    /\ steps = <<"ir_on", "camera", "record", "terminate", "convert", "ir_off",
                 "storage", "usb_check", "write_to_usb", "resnapshot", "spare">>

\* the positions of the controller from the storage check to the end of a run
\* that ends normally or by a break
FromStorageCheckOn ==
    {"storage", "usb_check", "usb_glob", "usb_copy", "usb_unlink", "resnapshot",
     "spare", "done"}

\* C23: when --ir is given and the run ends normally, by the spare-space
\* break or by the USB break, the IR leds were reset before the storage check
\* of the last iteration and are off from then to the end of the run.
IlluminationOffAtEnd ==
    (args.ir /\ pc \in FromStorageCheckOn) => (led = "off" /\ "ir_off" \in Range(steps))

\* a run with --ir ended by the USB break, after the leds had been switched
\* on for the iteration
EndedByUsbBreakWithIr ==
    /\ pc = "done"
    /\ args.ir
    /\ ~space_on_usb
    /\ steps[1] = "ir_on"
    /\ led = "off"

\* capture resources the run has opened and not released: PiCameraGs handles
\* (the script never calls close()) and a picam process not yet terminated
OpenCaptureResources == cameras + (IF camera_proc = "running" THEN 1 ELSE 0)

\* C24: in both backends of record.py at most one capture resource opened by
\* the run is open at any time: the one opened for an iteration has been
\* released before the next one is opened.
OneCaptureResourceAtATime ==
    prog = "record" => OpenCaptureResources <= 1

\* the files write_to_usb is asked to move: the converted files of the data
\* directory (record.py, record_picam.py), the raw files below it
\* (record_live.py)
Matches(f) ==
    IF prog = "record_live" THEN f.ext = "h264"
    ELSE f.dir = SaveDir /\ f.ext = "mp4"

\* one step of write_to_usb: the glob returns the matching files; no file is
\* created in the source directory and no other file leaves it; a copy takes
\* one matching file that is still in the source directory and puts it on the
\* stick in place of what the stick held under its name; the unlink that
\* follows removes that file from the source directory, so that no file is
\* copied a second time
OffloadStep ==
    /\ pc = "usb_glob" => handed' = {f \in fs : Matches(f)}
    /\ fs' \subseteq fs
    /\ \A f \in fs : ~Matches(f) => f \in fs'
    /\ (usb_fs' # usb_fs /\ pc' # "crashed") => pc' = "usb_unlink"
    /\ (pc = "usb_copy" /\ pc' = "usb_unlink")
          => \E f \in fs \cap handed :
                LET old == AtPath(usb_fs, TargetPath(f))
                IN  /\ cur' = <<f>>
                    /\ usb_fs' = (usb_fs \ old) \cup {TargetPath(f)}
                    /\ usb_disk_free' = usb_disk_free + Held(old) - Size(f)
    /\ pc = "usb_unlink" => (cur[1] \in fs /\ fs' = fs \ {cur[1]})

\* what holds when write_to_usb has returned
OffloadPostcondition ==
    pc = "returned" =>
        /\ err = ""
        /\ \A f \in handed :
              /\ AtPath(usb_fs, TargetPath(f)) = {TargetPath(f)}
              /\ f \notin fs
        /\ \A f \in fs : ~Matches(f)
        /\ usb_fs \subseteq {TargetPath(f) : f \in handed}
              \cup {q \in usb_fs : \E f \in fs : AtPath({q}, TargetPath(f)) # {}}

\* C25: when write_to_usb returns without an error every file that matched
\* the extension at the start of the call is on the stick and gone from the
\* source directory, each was copied exactly once, and the files that do not
\* match are still in the source directory.
OffloadMovesExactlyTheMatches == []OffloadPostcondition /\ [][OffloadStep]_vars

\* write_to_usb has returned after moving one file and leaving a file with
\* another extension where it was
MovedOneKeptOther ==
    /\ pc = "returned"
    /\ Cardinality(usb_fs) = 1
    /\ \E f \in fs : ~Matches(f)

\* C26: with --debug every script replaces the segment and session lengths
\* the user gave by small fixed values before the assert, so the run is not
\* rejected, and plans exactly one iteration of N_SEGMENTS segments.
DebugRunPlansOneIteration ==
    (args.debug /\ pc # "parse") =>
        /\ pc # "rejected"
        /\ args.segment_length = 3
        /\ args.session_length = (IF prog = "record_live" THEN 6 ELSE 7)
        /\ pc = "loop" => (num_iterations = 1 /\ num_iterations * N_SEGMENTS = 5)

\* a debug run of record_live.py has planned its one iteration
DebugRunOfLivePlanned ==
    /\ args.debug
    /\ prog = "record_live"
    /\ pc = "loop"
    /\ args.experiment_name = "test"
    /\ num_iterations = 1
====
